---------------------------- MODULE Spec2Model ----------------------------
(***************************************************************************)
(* Model of multithreaded_compressor.cpp: the LZ77 codec, the ThreadPool,  *)
(* the chunked compress path of main and the container reader.             *)
(*                                                                         *)
(* Buffers are sequences of bytes (0..255).  The source indexes from 0,    *)
(* TLA+ sequences from 1: ReadByte(buf, i) is the source's buf[i].         *)
(***************************************************************************)
EXTENDS Integers, Sequences, FiniteSets, TLC

\* ------------------------------------------------------------------------
\* Bounds of the model
\* ------------------------------------------------------------------------
\* longest codec input drawn exhaustively over Alphabet
MaxLen == 8
\* longest raw token stream handed to LZ77::decompress
MaxStream == 6
\* longest input file of a compress run
MaxFile == 3
\* largest worker count of the pool
MaxWorkers == 2
\* most tasks the client of the pool submits
MaxTasks == 2

\* ------------------------------------------------------------------------
\* Program constants
\* ------------------------------------------------------------------------
window_size == 4096
lookahead == 255

Alphabet == {65, 66}
StreamBytes == {0, 1, 2, 65}

Min(a, b) == IF a < b THEN a ELSE b

\* buf[i] of the source (0-based); a read past the end is flagged by the
\* callers through InRange and yields 0 here
InRange(buf, i) == i >= 0 /\ i < Len(buf)
ReadByte(buf, i) == IF InRange(buf, i) THEN buf[i + 1] ELSE 0

\* all sequences over S of length 0..n
RECURSIVE SeqsUpTo(_, _)
SeqsUpTo(S, n) ==
    IF n = 0 THEN {<<>>}
    ELSE LET shorter == SeqsUpTo(S, n - 1)
         IN  shorter \cup {Append(s, b) : s \in {t \in shorter : Len(t) = n - 1}, b \in S}

\* ------------------------------------------------------------------------
\* LZ77::compress
\* ------------------------------------------------------------------------
\* the inner while of the match search, started at len = 0: len is advanced
\* while len < lookahead, pos + len < n and the bytes agree, so it stops at
\* the first k at which one of the three fails
MatchLen(input, i, pos) ==
    LET cap == Min(lookahead, Len(input) - pos)
        Agree(k) == ReadByte(input, i + k) = ReadByte(input, pos + k)
    IN  CHOOSE k \in 0..cap :
            /\ k = cap \/ ~Agree(k)
            /\ \A j \in 0..(k - 1) : Agree(j)

\* (mutant of Better: an equally long candidate replaces the best too)
BetterOrEqual(len, best_len) == len >= best_len

\* the replacement test of the search: strictly longer replaces the best
Better(len, best_len) == len > best_len

\* the for loop over i in [start, pos), with its early break
RECURSIVE SearchFrom(_, _, _, _, _)
SearchFrom(input, pos, i, best_off, best_len) ==
    IF ~(i < pos) THEN [off |-> best_off, len |-> best_len]
    ELSE LET len == MatchLen(input, i, pos)
             nlen == IF Better(len, best_len) THEN len ELSE best_len
             noff == IF Better(len, best_len) THEN pos - i ELSE best_off
         IN  IF nlen = lookahead THEN [off |-> noff, len |-> nlen]
             ELSE SearchFrom(input, pos, i + 1, noff, nlen)

\* (mutant of SearchStart: the search is not limited to the window)
SearchStartNoWindow(pos) == 0

\* the window floor
SearchStart(pos) == IF pos > window_size THEN pos - window_size ELSE 0

\* (mutant of FindBest: only the candidate at the window floor is tried)
FindBestFloorOnly(input, pos) ==
    IF SearchStart(pos) < pos
    THEN [off |-> pos - SearchStart(pos), len |-> MatchLen(input, SearchStart(pos), pos)]
    ELSE [off |-> 0, len |-> 0]

FindBest(input, pos) == SearchFrom(input, pos, SearchStart(pos), 0, 0)

\* the four bytes of a match token: (u16) cast of the offset, big-endian,
\* then (u8) min(best_len, 255)
MatchBytes(best_off, best_len) ==
    LET off == best_off % 65536
        llen == Min(best_len, 255) % 256
    IN  <<1, (off \div 256) % 256, off % 256, llen>>

LiteralBytes(b) == <<0, b>>

\* smallest match length that is emitted as a match
MinMatch == 3

\* one iteration of the outer while: the token emitted at pos and the
\* position after it
CompressIter(input, pos) ==
    LET best == FindBest(input, pos)
    IN  IF best.len >= MinMatch
        THEN [kind |-> "match", off |-> best.off, len |-> best.len, at |-> pos,
              bytes |-> MatchBytes(best.off, best.len), pos |-> pos + best.len]
        ELSE [kind |-> "literal", off |-> 0, len |-> 1, at |-> pos,
              bytes |-> LiteralBytes(ReadByte(input, pos)), pos |-> pos + 1]

RECURSIVE CompressFrom(_, _, _)
CompressFrom(input, pos, out) ==
    IF ~(pos < Len(input)) THEN out
    ELSE LET t == CompressIter(input, pos)
         IN  CompressFrom(input, t.pos, out \o t.bytes)

compress(input) == CompressFrom(input, 0, <<>>)

\* ------------------------------------------------------------------------
\* LZ77::decompress
\* ------------------------------------------------------------------------
\* (mutant of CopyMatch: the bytes are copied from the buffer as it was
\* before the loop, so a read past its old end finds nothing)
CopyMatchNoOverlap(out, start, len) ==
    out \o [k \in 1..len |-> ReadByte(out, start + (k - 1))]

\* the copy loop of a match: out.push_back(out[start + i]) for i in [0, len).
\* The i-th read is of index start + i; once that passes the old end of out
\* it reads a byte pushed off = Len(out) - start iterations earlier, so the
\* i-th byte pushed is the old out[start + (i mod off)].  (off < 1 or
\* start < 0 is excluded by the caller's offset check; the reads would then
\* fall outside out, which ReadByte turns into 0.)
CopyMatch(out, start, len) ==
    LET off == Len(out) - start
    IN  out \o [k \in 1..len |->
                  IF off >= 1 THEN ReadByte(out, start + ((k - 1) % off)) ELSE 0]

\* whether some read of the copy loop falls outside the output buffer
CopyOutside(outLen, start, len) ==
    \E i \in 0..(len - 1) : ~(start + i >= 0 /\ start + i < outLen + i)

LiteralTruncated(pos, n) == pos >= n
\* (mutant of MatchTruncated: the length byte is not counted)
MatchTruncatedShort(pos, n) == pos + 2 > n
MatchTruncated(pos, n) == pos + 3 > n
BadOffset(off, outLen) == off = 0 \/ off > outLen

\* one iteration of the while: pos is the index of the flag byte
DecompressIter(input, pos, out) ==
    LET n == Len(input)
        flag == ReadByte(input, pos)
        p == pos + 1
    IN  IF flag = 0
        THEN IF LiteralTruncated(p, n)
             THEN [pos |-> p, out |-> out, err |-> "corrupt literal", oob |-> FALSE]
             ELSE [pos |-> p + 1, out |-> Append(out, ReadByte(input, p)),
                   err |-> "none", oob |-> ~InRange(input, p)]
        ELSE IF flag = 1
        THEN IF MatchTruncated(p, n)
             THEN [pos |-> p, out |-> out, err |-> "corrupt match", oob |-> FALSE]
             ELSE LET off == ReadByte(input, p) * 256 + ReadByte(input, p + 1)
                      len == ReadByte(input, p + 2)
                      rd == ~InRange(input, p) \/ ~InRange(input, p + 1)
                            \/ ~InRange(input, p + 2)
                  IN  IF BadOffset(off, Len(out))
                      THEN [pos |-> p + 3, out |-> out, err |-> "invalid offset",
                            oob |-> rd]
                      ELSE [pos |-> p + 3,
                            out |-> CopyMatch(out, Len(out) - off, len),
                            err |-> "none",
                            oob |-> rd \/ CopyOutside(Len(out), Len(out) - off, len)]
        ELSE [pos |-> p, out |-> out, err |-> "unknown token flag", oob |-> FALSE]

\* the whole function: [ok, out, err]; a throw returns no bytes
RECURSIVE DecompressFrom(_, _, _)
DecompressFrom(input, pos, out) ==
    IF ~(pos < Len(input)) THEN [ok |-> TRUE, out |-> out, err |-> "none"]
    ELSE LET r == DecompressIter(input, pos, out)
         IN  IF r.err # "none" THEN [ok |-> FALSE, out |-> <<>>, err |-> r.err]
             ELSE DecompressFrom(input, r.pos, r.out)

\* (mutant of decompress: a corrupt stream is not reported, the function
\* returns normally with no bytes)
decompressNoThrow(input) == [DecompressFrom(input, 0, <<>>) EXCEPT !.ok = TRUE]

decompress(input) == DecompressFrom(input, 0, <<>>)

\* ------------------------------------------------------------------------
\* File helpers and the container format
\* ------------------------------------------------------------------------
\* what a path holds at which no file exists (no file holds the byte -1)
Absent == <<-1>>

\* u64 / size_t arithmetic wraps modulo 2^64.  The width is scaled down to
\* WordBits so that chunk sizes up to the largest representable value can
\* be enumerated.
WordBits == 3
RECURSIVE Pow2(_)
Pow2(n) == IF n = 0 THEN 1 ELSE 2 * Pow2(n - 1)
U64 == Pow2(WordBits)
Wrap(x) == x % U64

\* file_size: 0 when the file cannot be opened, else its length
file_size(f) == IF f = Absent THEN 0 ELSE Len(f)

\* read_file_chunk: up to size bytes from offset; a short read at the end
\* of the file returns fewer
read_file_chunk(f, offset, size) ==
    IF f = Absent THEN <<>>
    ELSE SubSeq(f, offset + 1, Min(offset + size, Len(f)))

\* num_chunks = (fsize + chunk_size - 1) / chunk_size, in u64
NumChunks(fsize, chunk_size) == Wrap(fsize + chunk_size - 1) \div chunk_size

\* offset and read_sz of loop iteration i
ChunkOffset(i, chunk_size) == Wrap(i * chunk_size)
ReadSize(i, fsize, chunk_size) ==
    Min(chunk_size, Wrap(fsize - ChunkOffset(i, chunk_size)))

\* original_sizes[i]
OriginalSize(i, num_chunks, fsize, chunk_size) ==
    IF i = num_chunks - 1 THEN Wrap(fsize - Wrap(i * chunk_size))
    ELSE chunk_size

\* an unsigned integer as n bytes in native (little-endian) order
EncodeLE(v, n) == [k \in 1..n |-> IF k = 1 THEN v % 256
                                  ELSE IF k = 2 THEN (v \div 256) % 256
                                  ELSE IF k = 3 THEN (v \div 65536) % 256
                                  ELSE 0]

\* a value no buffer of the model reaches: stands for any integer read
\* from the file whose bytes beyond the third are not all zero
Huge == 256 * 65536
DecodeLE(bytes) ==
    IF \E k \in 4..Len(bytes) : bytes[k] # 0 THEN Huge
    ELSE bytes[1] + 256 * bytes[2] + 65536 * bytes[3]

\* "MTC1"
Magic == <<77, 84, 67, 49>>

\* the records written by the loop of write_all, from record k (1-based) on
RECURSIVE WriteRecords(_, _, _)
WriteRecords(chunks, sizes, k) ==
    IF k > Len(chunks) THEN <<>>
    ELSE EncodeLE(sizes[k], 8) \o EncodeLE(Len(chunks[k]), 8) \o chunks[k]
         \o WriteRecords(chunks, sizes, k + 1)

\* the bytes write_all writes
write_all(chunks, sizes) ==
    Magic \o EncodeLE(Len(chunks), 4) \o WriteRecords(chunks, sizes, 1)

\* ------------------------------------------------------------------------
\* State
\* ------------------------------------------------------------------------
VARIABLES
    phase,      \* where the codec run stands
    cIn,        \* LZ77::compress: input
    cPos,       \* LZ77::compress: pos
    cOut,       \* LZ77::compress: out
    tokens,     \* tokens emitted so far by LZ77::compress
    dIn,        \* LZ77::decompress: input
    dPos,       \* LZ77::decompress: pos
    dOut,       \* LZ77::decompress: out
    dErr,       \* LZ77::decompress: message of the exception thrown, or "none"
    dOob,       \* LZ77::decompress: some read fell outside a buffer
    file,       \* the input file of the compress run
    chunk_size, \* main: chunk_size
    hw,         \* main: hw, the number of workers
    pc,         \* where the coordinating thread stands
    fsize,      \* main: fsize
    num_chunks, \* main: num_chunks
    idx,        \* main: the index of the running for loop
    arg,        \* the task handed to enqueue
    futures,    \* main: futures (each names its shared state in promise)
    compressed_chunks,
    original_sizes,
    container,  \* the file at the container path
    exitCode,   \* what main returned, -1 while it runs
    got,        \* what get() gave the pool's client, by future
    ioFault,    \* history: the file operations that failed or fell short
    tasks,      \* ThreadPool: tasks
    mutex,      \* ThreadPool: m, its holder or Free
    stop,       \* ThreadPool: stop
    waiting,    \* ThreadPool: the threads blocked in cv
    wpc,        \* where each worker stands in worker_loop
    job,        \* worker_loop: job
    promise,    \* the shared state of each packaged_task / future
    reordered,  \* history: some task completed before one enqueued earlier
    dpc,        \* where the run of main in mode "d" stands
    cnt,        \* read_and_decompress_file: cnt
    rec,        \* read_and_decompress_file: the index i of the record loop
    rpos,       \* read_and_decompress_file: the read position of f
    outFile,    \* the file at the output path of the decompress run
    dMsg,       \* what the decompress run wrote to cerr, or "none"
    dExit       \* what main returned in mode "d", -1 while it runs

codecVars == <<phase, cIn, cPos, cOut, tokens, dIn, dPos, dOut, dErr, dOob>>
mainVars == <<file, chunk_size, hw, pc, fsize, num_chunks, idx, arg, futures,
              compressed_chunks, original_sizes, container, exitCode, got,
              ioFault>>
poolVars == <<tasks, mutex, stop, waiting, wpc, job, promise, reordered>>
decompVars == <<dpc, cnt, rec, rpos, outFile, dMsg, dExit>>
vars == <<codecVars, mainVars, poolVars, decompVars>>

\* "ABABABABAB"
Scenario1 == <<65, 66, 65, 66, 65, 66, 65, 66, 65, 66>>

\* "AB" and then a run of "A" long enough for the scan to pass the window:
\* three literals, then matches of lookahead bytes up to a position beyond
\* window_size
LongLen == 3 + lookahead * ((window_size \div lookahead) + 2)
LongRun == [k \in 1..LongLen |-> IF k = 2 THEN 66 ELSE 65]

\* "AAAABAAABB": at position 5 the window holds a candidate of length 3 and,
\* after it, one of length 4
Repeats == <<65, 65, 65, 65, 66, 65, 65, 65, 66, 66>>

Inputs == SeqsUpTo(Alphabet, MaxLen) \cup {Scenario1, LongRun, Repeats}
Streams == SeqsUpTo(StreamBytes, MaxStream)
Files == SeqsUpTo(Alphabet, MaxFile)
ChunkSizes == 1..(U64 - 1)

\* what main leaves at the container path for a file and a chunk size
ContainerFor(f, S) ==
    LET n == NumChunks(file_size(f), S)
        chunks == [k \in 1..n |->
                     compress(read_file_chunk(f, ChunkOffset(k - 1, S),
                                              ReadSize(k - 1, file_size(f), S)))]
        sizes == [k \in 1..n |-> OriginalSize(k - 1, n, file_size(f), S)]
    IN  write_all(chunks, sizes)

ValidContainers ==
    {ContainerFor(f, S) : f \in Files \ {<<>>}, S \in ChunkSizes}
    \cup {write_all(<<>>, <<>>)}
\* "MTC2", "mtc1", 0 0 0 0
BadTags == {<<77, 84, 67, 50>>, <<109, 116, 99, 49>>, <<0, 0, 0, 0>>}
WithTag(c, tag) == tag \o SubSeq(c, 5, Len(c))
Prefixes(c) == {SubSeq(c, 1, n) : n \in 0..(Len(c) - 1)}
\* containers whose first record declares one byte more than it decodes to
Mismatched ==
    {write_all(<<compress(f)>>, <<Len(f) + 1>>) : f \in Files \ {<<>>}}
    \cup {write_all(<<compress(f), compress(f)>>, <<Len(f) + 1, Len(f)>>) :
             f \in Files \ {<<>>}}
\* token streams that do not decode: flag 0x02, a literal without its byte,
\* a match with offset 0, and a literal followed by a match whose offset (5)
\* exceeds the one byte decoded
BadStreams == {<<2>>, <<0>>, <<1, 0, 0, 3>>, <<0, 65, 1, 0, 5, 1>>}
\* containers with such a stream as their first, second or only record
Corrupted ==
    {write_all(<<b>>, <<1>>) : b \in BadStreams}
    \cup {write_all(<<b, compress(f)>>, <<1, Len(f)>>) :
             b \in BadStreams, f \in Files \ {<<>>}}
    \cup {write_all(<<compress(f), b, compress(f)>>, <<Len(f), 1, Len(f)>>) :
             b \in BadStreams, f \in Files \ {<<>>}}
\* the files a decompress run is started on
DecompInputs ==
    ValidContainers
    \cup Mismatched
    \cup Corrupted
    \cup {WithTag(c, t) : c \in ValidContainers, t \in BadTags}
    \cup UNION {Prefixes(c) : c \in ValidContainers}
    \cup {Absent}
\* what the output path holds before the decompress run: nothing, or "X"
Prior == <<88>>

Free == <<"free">>
\* (mutant of Holder: locking leaves the mutex free)
HolderNone(w) == Free
\* the holder of the mutex when worker w has it
Holder(w) == <<"worker", w>>
NoTask == [id |-> -1, i |-> 0, chunk |-> <<>>, throws |-> FALSE]
Pending == [ready |-> FALSE, first |-> 0, second |-> <<>>, exc |-> "none"]

CodecIdle ==
    /\ phase = "idle"
    /\ cIn = <<>> /\ cPos = 0 /\ cOut = <<>> /\ tokens = <<>>
    /\ dIn = <<>> /\ dPos = 0 /\ dOut = <<>> /\ dErr = "none" /\ dOob = FALSE

MainIdle ==
    /\ file = Absent /\ chunk_size = 1 /\ hw = 0 /\ pc = "idle"
    /\ fsize = 0 /\ num_chunks = 0 /\ idx = 0 /\ arg = NoTask
    /\ futures = <<>> /\ compressed_chunks = <<>> /\ original_sizes = <<>>
    /\ container = Absent /\ exitCode = -1 /\ got = <<>> /\ ioFault = {}

PoolIdle ==
    /\ tasks = <<>> /\ mutex = Free /\ stop = FALSE /\ waiting = {}
    /\ wpc = <<>> /\ job = <<>> /\ promise = <<>> /\ reordered = FALSE

DecompIdle ==
    /\ dpc = "idle" /\ cnt = 0 /\ rec = 0 /\ rpos = 0 /\ outFile = Absent
    /\ dMsg = "none" /\ dExit = -1

InitCodec ==
    /\ phase = "compress"
    /\ cIn \in Inputs
    /\ cPos = 0 /\ cOut = <<>> /\ tokens = <<>>
    /\ dIn = <<>> /\ dPos = 0 /\ dOut = <<>> /\ dErr = "none" /\ dOob = FALSE
    /\ MainIdle /\ PoolIdle /\ DecompIdle

InitDecode ==
    /\ phase = "decompress"
    /\ dIn \in Streams
    /\ cIn = <<>> /\ cPos = 0 /\ cOut = <<>> /\ tokens = <<>>
    /\ dPos = 0 /\ dOut = <<>> /\ dErr = "none" /\ dOob = FALSE
    /\ MainIdle /\ PoolIdle /\ DecompIdle

\* main is started in mode "d" on a file at the container path
InitDecomp ==
    /\ container \in DecompInputs
    /\ outFile \in {Absent, Prior}
    /\ dpc = "open"
    /\ cnt = 0 /\ rec = 0 /\ rpos = 0 /\ dMsg = "none" /\ dExit = -1
    /\ file = Absent /\ chunk_size = 1 /\ hw = 0 /\ pc = "idle"
    /\ fsize = 0 /\ num_chunks = 0 /\ idx = 0 /\ arg = NoTask
    /\ futures = <<>> /\ compressed_chunks = <<>> /\ original_sizes = <<>>
    /\ exitCode = -1 /\ got = <<>> /\ ioFault = {}
    /\ CodecIdle /\ PoolIdle

\* a pool of hw workers has been constructed by a client thread
InitPool ==
    /\ hw \in 1..MaxWorkers
    /\ wpc = [w \in 1..hw |-> "lock"]
    /\ job = [w \in 1..hw |-> NoTask]
    /\ tasks = <<>> /\ mutex = Free /\ stop = FALSE /\ waiting = {}
    /\ promise = <<>> /\ reordered = FALSE
    /\ pc = "client"
    /\ file = Absent /\ chunk_size = 1
    /\ fsize = 0 /\ num_chunks = 0 /\ idx = 0 /\ arg = NoTask
    /\ futures = <<>> /\ compressed_chunks = <<>> /\ original_sizes = <<>>
    /\ container = Absent /\ exitCode = -1 /\ got = <<>> /\ ioFault = {}
    /\ CodecIdle /\ DecompIdle

\* main is started in mode "c" on an existing input file
Init ==
    /\ file \in Files
    /\ chunk_size \in ChunkSizes
    /\ hw \in 1..MaxWorkers
    /\ pc = "main"
    /\ fsize = 0 /\ num_chunks = 0 /\ idx = 0 /\ arg = NoTask
    /\ futures = <<>> /\ compressed_chunks = <<>> /\ original_sizes = <<>>
    /\ container = Absent /\ exitCode = -1 /\ got = <<>> /\ ioFault = {}
    /\ CodecIdle /\ PoolIdle /\ DecompIdle

\* ------------------------------------------------------------------------
\* LZ77 codec: one action per loop iteration
\* ------------------------------------------------------------------------
\* one iteration of the while loop of LZ77::compress
CompressIterate ==
    /\ phase = "compress"
    /\ cPos < Len(cIn)
    /\ LET t == CompressIter(cIn, cPos)
       IN  /\ cOut' = cOut \o t.bytes
           /\ cPos' = t.pos
           /\ tokens' = Append(tokens, t)
    /\ UNCHANGED <<phase, cIn, dIn, dPos, dOut, dErr, dOob, mainVars, poolVars, decompVars>>

\* the loop of LZ77::compress ends: return out
CompressReturn ==
    /\ phase = "compress"
    /\ ~(cPos < Len(cIn))
    /\ phase' = "compressed"
    /\ UNCHANGED <<cIn, cPos, cOut, tokens, dIn, dPos, dOut, dErr, dOob,
                   mainVars, poolVars, decompVars>>

\* LZ77::decompress is called on what LZ77::compress returned
DecompressCall ==
    /\ phase = "compressed"
    /\ phase' = "decompress"
    /\ dIn' = cOut
    /\ dPos' = 0 /\ dOut' = <<>> /\ dErr' = "none" /\ dOob' = FALSE
    /\ UNCHANGED <<cIn, cPos, cOut, tokens, mainVars, poolVars, decompVars>>

\* one iteration of the while loop of LZ77::decompress; a throw unwinds
\* the local out
DecompressIterate ==
    /\ phase = "decompress"
    /\ dPos < Len(dIn)
    /\ LET r == DecompressIter(dIn, dPos, dOut)
       IN  /\ dPos' = r.pos
           /\ dErr' = r.err
           /\ dOob' = (dOob \/ r.oob)
           /\ dOut' = IF r.err = "none" THEN r.out ELSE <<>>
           /\ phase' = IF r.err = "none" THEN "decompress" ELSE "thrown"
    /\ UNCHANGED <<cIn, cPos, cOut, tokens, dIn, mainVars, poolVars, decompVars>>

\* the loop of LZ77::decompress ends: return out
DecompressReturn ==
    /\ phase = "decompress"
    /\ ~(dPos < Len(dIn))
    /\ phase' = "returned"
    /\ UNCHANGED <<cIn, cPos, cOut, tokens, dIn, dPos, dOut, dErr, dOob,
                   mainVars, poolVars, decompVars>>

NextCodec ==
    \/ CompressIterate
    \/ CompressReturn
    \/ DecompressCall
    \/ DecompressIterate
    \/ DecompressReturn

NextDecode ==
    \/ DecompressIterate
    \/ DecompressReturn

SpecCodec == InitCodec /\ [][NextCodec]_vars
SpecDecode == InitDecode /\ [][NextDecode]_vars

\* ------------------------------------------------------------------------
\* ThreadPool
\* ------------------------------------------------------------------------
Caller == <<"main">>

\* ThreadPool(n): n threads, each at the top of worker_loop
PoolConstruct(n) ==
    /\ wpc' = [w \in 1..n |-> "lock"]
    /\ job' = [w \in 1..n |-> NoTask]
    /\ stop' = FALSE
    /\ tasks' = <<>>
    /\ mutex' = Free
    /\ waiting' = {}
    /\ promise' = <<>>
    /\ reordered' = FALSE

\* enqueue, up to the lock: the packaged_task and its future are created
\* and the mutex is acquired
EnqueueLock ==
    /\ mutex = Free
    /\ mutex' = Caller
    /\ promise' = Append(promise, Pending)
    /\ UNCHANGED <<tasks, stop, waiting, wpc, job, reordered>>

\* the id enqueue gives the task it is pushing: its shared state in promise
NewTaskId == Len(promise) - 1

\* enqueue: tasks.emplace(...) and the end of the locked scope
EnqueuePush(t) ==
    /\ mutex = Caller
    /\ tasks' = Append(tasks, [t EXCEPT !.id = NewTaskId])
    /\ mutex' = Free
    /\ UNCHANGED <<stop, waiting, wpc, job, promise, reordered>>

\* (mutant of NotifyOne: nobody is notified)
NotifyNone == UNCHANGED <<tasks, mutex, stop, waiting, wpc, job, promise, reordered>>

\* cv.notify_one(): one of the threads blocked in cv, if any, is woken and
\* has to take the mutex again
NotifyOne ==
    /\ \/ /\ waiting = {}
          /\ UNCHANGED <<waiting, wpc>>
       \/ \E w \in waiting :
             /\ waiting' = waiting \ {w}
             /\ wpc' = [wpc EXCEPT ![w] = "lock"]
    /\ UNCHANGED <<tasks, mutex, stop, job, promise, reordered>>

\* ~ThreadPool: unique_lock lk(m)
DtorLock ==
    /\ mutex = Free
    /\ mutex' = Caller
    /\ UNCHANGED <<tasks, stop, waiting, wpc, job, promise, reordered>>

\* ~ThreadPool: stop = true and the end of the locked scope
DtorStop ==
    /\ mutex = Caller
    /\ stop' = TRUE
    /\ mutex' = Free
    /\ UNCHANGED <<tasks, waiting, wpc, job, promise, reordered>>

\* ~ThreadPool: cv.notify_all()
NotifyAll ==
    /\ waiting' = {}
    /\ wpc' = [w \in DOMAIN wpc |-> IF w \in waiting THEN "lock" ELSE wpc[w]]
    /\ UNCHANGED <<tasks, mutex, stop, job, promise, reordered>>

\* ~ThreadPool: the joins return once every worker has left worker_loop
AllJoined == \A w \in DOMAIN wpc : wpc[w] = "exited"

\* (mutant of RunTask: the closure holds a reference to the loop variable of
\* main instead of a copy of it)
RunTaskByRef(t) ==
    [ready |-> TRUE, first |-> idx, second |-> compress(t.chunk), exc |-> "none"]

\* what running the task stores in its shared state: the task of main
\* returns {i, localcodec.compress(chunk)}
RunTask(t) ==
    [ready |-> TRUE, first |-> t.i, second |-> compress(t.chunk), exc |-> "none"]

\* (mutant of PackagedTask: the exception of the callable is dropped and the
\* future is made ready with no value)
PackagedTaskDrop(t) == IF t.throws THEN [Pending EXCEPT !.ready = TRUE] ELSE RunTask(t)

\* (*task)(): the packaged_task runs its callable and stores what it
\* returned, or the exception it threw, in the shared state; nothing is
\* thrown into the caller
PackagedTask(t) ==
    IF t.throws THEN [Pending EXCEPT !.ready = TRUE, !.exc = "task error"]
    ELSE RunTask(t)

\* worker_loop: unique_lock lk(m), also when cv.wait takes it again
WorkerLock(w) ==
    /\ w \in DOMAIN wpc
    /\ wpc[w] = "lock"
    /\ mutex = Free
    /\ mutex' = Holder(w)
    /\ wpc' = [wpc EXCEPT ![w] = "locked"]
    /\ UNCHANGED <<tasks, stop, waiting, job, promise, reordered, codecVars, mainVars, decompVars>>

\* (mutant of WaitPredicate: stop is not part of the predicate)
WaitPredicateNoStop == tasks # <<>>

\* the predicate of cv.wait
WaitPredicate == stop \/ tasks # <<>>

\* worker_loop: cv.wait finds its predicate false, releases the mutex and
\* blocks
WorkerWait(w) ==
    /\ w \in DOMAIN wpc
    /\ wpc[w] = "locked"
    /\ mutex = Holder(w)
    /\ ~WaitPredicate
    /\ mutex' = Free
    /\ waiting' = waiting \cup {w}
    /\ wpc' = [wpc EXCEPT ![w] = "blocked"]
    /\ UNCHANGED <<tasks, stop, job, promise, reordered, codecVars, mainVars, decompVars>>

\* a spurious wake-up of a thread blocked in cv
WorkerSpuriousWake(w) ==
    /\ w \in DOMAIN wpc
    /\ wpc[w] = "blocked"
    /\ w \in waiting
    /\ waiting' = waiting \ {w}
    /\ wpc' = [wpc EXCEPT ![w] = "lock"]
    /\ UNCHANGED <<tasks, mutex, stop, job, promise, reordered, codecVars, mainVars, decompVars>>

\* worker_loop: if (stop && tasks.empty()) return
WorkerExit(w) ==
    /\ w \in DOMAIN wpc
    /\ wpc[w] = "locked"
    /\ mutex = Holder(w)
    /\ WaitPredicate
    /\ stop /\ tasks = <<>>
    /\ mutex' = Free
    /\ wpc' = [wpc EXCEPT ![w] = "exited"]
    /\ UNCHANGED <<tasks, stop, waiting, job, promise, reordered, codecVars, mainVars, decompVars>>

\* worker_loop: job = move(tasks.front()); tasks.pop(); end of the locked
\* scope
WorkerTake(w) ==
    /\ w \in DOMAIN wpc
    /\ wpc[w] = "locked"
    /\ mutex = Holder(w)
    /\ WaitPredicate
    /\ ~(stop /\ tasks = <<>>)
    /\ job' = [job EXCEPT ![w] = Head(tasks)]
    /\ tasks' = Tail(tasks)
    /\ mutex' = Free
    /\ wpc' = [wpc EXCEPT ![w] = "run"]
    /\ UNCHANGED <<stop, waiting, promise, reordered, codecVars, mainVars, decompVars>>

\* worker_loop: job(), which makes the task's future ready, and the next
\* turn of the loop
WorkerRun(w) ==
    /\ w \in DOMAIN wpc
    /\ wpc[w] = "run"
    /\ promise' = [promise EXCEPT ![job[w].id + 1] = PackagedTask(job[w])]
    /\ reordered' = (reordered \/ \E k \in 1..job[w].id : ~promise[k].ready)
    /\ job' = [job EXCEPT ![w] = NoTask]
    /\ wpc' = [wpc EXCEPT ![w] = "lock"]
    /\ UNCHANGED <<tasks, mutex, stop, waiting, codecVars, mainVars, decompVars>>

\* ------------------------------------------------------------------------
\* main, mode "c"
\* ------------------------------------------------------------------------
\* file_size, the empty check, num_chunks and the construction of the pool
MainStart ==
    /\ pc = "main"
    /\ fsize' = file_size(file)
    /\ IF fsize' = 0
       THEN /\ exitCode' = 1
            /\ pc' = "exit"
            /\ UNCHANGED <<num_chunks, poolVars>>
       ELSE /\ num_chunks' = NumChunks(fsize', chunk_size)
            /\ PoolConstruct(hw)
            /\ pc' = "loop"
            /\ UNCHANGED exitCode
    /\ UNCHANGED <<got, ioFault, file, chunk_size, hw, idx, arg, futures, compressed_chunks,
                   original_sizes, container, codecVars, decompVars>>

\* one turn of the submission loop up to the call of enqueue: the chunk
\* is read and moved into the task
MainReadChunk ==
    /\ pc = "loop"
    /\ idx < num_chunks
    /\ LET offset == ChunkOffset(idx, chunk_size)
           read_sz == ReadSize(idx, fsize, chunk_size)
           chunk == read_file_chunk(file, offset, read_sz)
       IN  IF chunk = <<>> /\ read_sz # 0
           THEN /\ exitCode' = 1
                /\ pc' = "dtor_lock"
                /\ UNCHANGED arg
           ELSE /\ arg' = [id |-> -1, i |-> idx, chunk |-> chunk, throws |-> FALSE]
                /\ pc' = "enq_lock"
                /\ UNCHANGED exitCode
    /\ UNCHANGED <<got, ioFault, file, chunk_size, hw, fsize, num_chunks, idx, futures,
                   compressed_chunks, original_sizes, container, codecVars, decompVars,
                   poolVars>>

MainEnqueueLock ==
    /\ pc = "enq_lock"
    /\ EnqueueLock
    /\ pc' = "enq_push"
    /\ UNCHANGED <<got, ioFault, file, chunk_size, hw, fsize, num_chunks, idx, arg, futures,
                   compressed_chunks, original_sizes, container, exitCode,
                   codecVars, decompVars>>

MainEnqueuePush ==
    /\ pc = "enq_push"
    /\ EnqueuePush(arg)
    /\ pc' = "enq_notify"
    /\ UNCHANGED <<got, ioFault, file, chunk_size, hw, fsize, num_chunks, idx, arg, futures,
                   compressed_chunks, original_sizes, container, exitCode,
                   codecVars, decompVars>>

\* enqueue notifies and returns: futures.push_back(...), ++i
MainEnqueueNotify ==
    /\ pc = "enq_notify"
    /\ NotifyOne
    /\ futures' = Append(futures, NewTaskId)
    /\ idx' = idx + 1
    /\ arg' = NoTask
    /\ pc' = "loop"
    /\ UNCHANGED <<got, ioFault, file, chunk_size, hw, fsize, num_chunks, compressed_chunks,
                   original_sizes, container, exitCode, codecVars, decompVars>>

\* the submission loop ends: compressed_chunks and original_sizes are set up
MainSizes ==
    /\ pc = "loop"
    /\ ~(idx < num_chunks)
    /\ compressed_chunks' = [k \in 1..num_chunks |-> <<>>]
    /\ original_sizes' = [k \in 1..num_chunks |->
                            OriginalSize(k - 1, num_chunks, fsize, chunk_size)]
    /\ idx' = 0
    /\ pc' = "collect"
    /\ UNCHANGED <<got, ioFault, file, chunk_size, hw, fsize, num_chunks, arg, futures,
                   container, exitCode, codecVars, decompVars, poolVars>>

\* where a collected result is stored
Store(chunks, p) == [chunks EXCEPT ![p.first + 1] = p.second]

\* one turn of the collection loop: fut.get() returns once the future is
\* ready
MainCollect ==
    /\ pc = "collect"
    /\ idx < Len(futures)
    /\ LET p == promise[futures[idx + 1] + 1]
       IN  /\ p.ready
           /\ compressed_chunks' = Store(compressed_chunks, p)
    /\ idx' = idx + 1
    /\ UNCHANGED <<got, ioFault, file, chunk_size, hw, pc, fsize, num_chunks, arg, futures,
                   original_sizes, container, exitCode, codecVars, decompVars, poolVars>>

\* write_all and return 0
MainWriteAll ==
    /\ pc = "collect"
    /\ ~(idx < Len(futures))
    /\ container' = write_all(compressed_chunks, original_sizes)
    /\ exitCode' = 0
    /\ pc' = "dtor_lock"
    /\ UNCHANGED <<got, ioFault, file, chunk_size, hw, fsize, num_chunks, idx, arg, futures,
                   compressed_chunks, original_sizes, codecVars, decompVars, poolVars>>

\* main returns: the pool is destroyed
MainDtorLock ==
    /\ pc = "dtor_lock"
    /\ DtorLock
    /\ pc' = "dtor_stop"
    /\ UNCHANGED <<got, ioFault, file, chunk_size, hw, fsize, num_chunks, idx, arg, futures,
                   compressed_chunks, original_sizes, container, exitCode,
                   codecVars, decompVars>>

MainDtorStop ==
    /\ pc = "dtor_stop"
    /\ DtorStop
    /\ pc' = "dtor_notify"
    /\ UNCHANGED <<got, ioFault, file, chunk_size, hw, fsize, num_chunks, idx, arg, futures,
                   compressed_chunks, original_sizes, container, exitCode,
                   codecVars, decompVars>>

MainDtorNotify ==
    /\ pc = "dtor_notify"
    /\ NotifyAll
    /\ pc' = "dtor_join"
    /\ UNCHANGED <<got, ioFault, file, chunk_size, hw, fsize, num_chunks, idx, arg, futures,
                   compressed_chunks, original_sizes, container, exitCode,
                   codecVars, decompVars>>

MainDtorJoin ==
    /\ pc = "dtor_join"
    /\ AllJoined
    /\ pc' = "exit"
    /\ UNCHANGED <<got, ioFault, file, chunk_size, hw, fsize, num_chunks, idx, arg, futures,
                   compressed_chunks, original_sizes, container, exitCode,
                   codecVars, decompVars, poolVars>>

\* ------------------------------------------------------------------------
\* main, mode "d": read_and_decompress_file
\* ------------------------------------------------------------------------
\* (mutant of Fread: the count fread returns is not looked at, the bytes
\* that could not be read are taken as zero)
FreadUnchecked(f, pos, n) ==
    [k \in 1..n |-> IF pos + k <= Len(f) THEN f[pos + k] ELSE 0]

\* fread of n bytes at the read position: what is there, at most n bytes
Fread(f, pos, n) == SubSeq(f, pos + 1, Min(pos + n, Len(f)))

\* the decompress run is started on the file the compress run left at the
\* container path
DecompStart ==
    /\ pc = "exit"
    /\ dpc = "idle"
    /\ dpc' = "open"
    /\ UNCHANGED <<cnt, rec, rpos, outFile, dMsg, dExit, codecVars, mainVars,
                   poolVars>>

\* the exception leaves read_and_decompress_file; main reports it and
\* returns 1
Throw(msg) ==
    /\ dMsg' = msg
    /\ dExit' = 1
    /\ dpc' = "exit"

\* (mutant of TagOk: the comparison stops one byte short)
TagOkShort(tag) == SubSeq(tag, 1, 3) = SubSeq(Magic, 1, 3)

\* memcmp(magic, "MTC1", 4) == 0
TagOk(tag) == tag = Magic

\* the header: the input is opened, the tag and the count are read and
\* checked, the output is opened
DecompOpen ==
    /\ dpc = "open"
    /\ IF container = Absent
       THEN Throw("cannot open input file") /\ UNCHANGED <<cnt, rec, rpos, outFile>>
       ELSE IF Len(Fread(container, 0, 4)) # 4
       THEN Throw("bad file") /\ UNCHANGED <<cnt, rec, rpos, outFile>>
       ELSE IF ~TagOk(Fread(container, 0, 4))
       THEN Throw("not a MTC1 file") /\ UNCHANGED <<cnt, rec, rpos, outFile>>
       ELSE IF Len(Fread(container, 4, 4)) # 4
       THEN Throw("bad file header") /\ UNCHANGED <<cnt, rec, rpos, outFile>>
       ELSE /\ cnt' = DecodeLE(Fread(container, 4, 4))
            /\ outFile' = <<>>
            /\ rpos' = 8
            /\ rec' = 0
            /\ dpc' = "records"
            /\ UNCHANGED <<dMsg, dExit>>
    /\ UNCHANGED <<codecVars, mainVars, poolVars>>

\* one turn of the record loop: the two sizes and the compressed bytes are
\* read, decoded and written; a size mismatch changes nothing
DecompRecord ==
    /\ dpc = "records"
    /\ rec < cnt
    /\ LET origB == Fread(container, rpos, 8)
           compB == Fread(container, rpos + 8, 8)
           comp == DecodeLE(compB)
           compbuf == Fread(container, rpos + 16, comp)
           decomp == decompress(compbuf)
       IN  IF Len(origB) # 8 \/ Len(compB) # 8
           THEN Throw("bad file") /\ UNCHANGED <<rec, rpos, outFile>>
           ELSE IF comp # 0 /\ Len(compbuf) # comp
           THEN Throw("bad file read") /\ UNCHANGED <<rec, rpos, outFile>>
           ELSE IF ~decomp.ok
           THEN Throw(decomp.err) /\ UNCHANGED <<rec, rpos, outFile>>
           ELSE /\ outFile' = outFile \o decomp.out
                /\ rpos' = rpos + 16 + comp
                /\ rec' = rec + 1
                /\ UNCHANGED <<dpc, dMsg, dExit>>
    /\ UNCHANGED <<cnt, codecVars, mainVars, poolVars>>

\* the record loop ends: the files are closed and main returns 0
DecompFinish ==
    /\ dpc = "records"
    /\ ~(rec < cnt)
    /\ dExit' = 0
    /\ dpc' = "exit"
    /\ UNCHANGED <<cnt, rec, rpos, outFile, dMsg, codecVars, mainVars, poolVars>>

Next ==
    \/ MainStart
    \/ MainReadChunk
    \/ MainEnqueueLock
    \/ MainEnqueuePush
    \/ MainEnqueueNotify
    \/ MainSizes
    \/ MainCollect
    \/ MainWriteAll
    \/ MainDtorLock
    \/ MainDtorStop
    \/ MainDtorNotify
    \/ MainDtorJoin
    \/ \E w \in DOMAIN wpc : WorkerLock(w)
    \/ \E w \in DOMAIN wpc : WorkerWait(w)
    \/ \E w \in DOMAIN wpc : WorkerSpuriousWake(w)
    \/ \E w \in DOMAIN wpc : WorkerExit(w)
    \/ \E w \in DOMAIN wpc : WorkerTake(w)
    \/ \E w \in DOMAIN wpc : WorkerRun(w)
    \/ DecompStart
    \/ DecompOpen
    \/ DecompRecord
    \/ DecompFinish

Spec == Init /\ [][Next]_vars

NextDecomp ==
    \/ DecompOpen
    \/ DecompRecord
    \/ DecompFinish

SpecDecomp == InitDecomp /\ [][NextDecomp]_vars

\* ------------------------------------------------------------------------
\* The same runs on files whose operations can fail
\* ------------------------------------------------------------------------
\* what a read or write of the bytes b transfers when it fails or falls
\* short
ShortOf(b) == {SubSeq(b, 1, n) : n \in 0..(Len(b) - 1)}

\* file_size when fopen or fseek fails: it returns 0 and main returns 1
MainStartFault ==
    /\ pc = "main"
    /\ ioFault' = ioFault \cup {"file_size"}
    /\ fsize' = 0
    /\ exitCode' = 1
    /\ pc' = "exit"
    /\ UNCHANGED <<got, file, chunk_size, hw, num_chunks, idx, arg, futures,
                   compressed_chunks, original_sizes, container, codecVars,
                   decompVars, poolVars>>

\* read_file_chunk when fopen or fseek fails (it returns {}) or fread
\* transfers fewer bytes than asked (it returns those): main returns 1 only
\* for an empty chunk
MainReadChunkFault ==
    /\ pc = "loop"
    /\ idx < num_chunks
    /\ LET offset == ChunkOffset(idx, chunk_size)
           read_sz == ReadSize(idx, fsize, chunk_size)
       IN  \E chunk \in ShortOf(read_file_chunk(file, offset, read_sz)) :
              IF chunk = <<>> /\ read_sz # 0
              THEN /\ exitCode' = 1
                   /\ pc' = "dtor_lock"
                   /\ UNCHANGED arg
              ELSE /\ arg' = [id |-> -1, i |-> idx, chunk |-> chunk, throws |-> FALSE]
                   /\ pc' = "enq_lock"
                   /\ UNCHANGED exitCode
    /\ ioFault' = ioFault \cup {"chunk read"}
    /\ UNCHANGED <<got, file, chunk_size, hw, fsize, num_chunks, idx, futures,
                   compressed_chunks, original_sizes, container, codecVars, decompVars,
                   poolVars>>

\* write_all when fopen fails (it throws, main returns 1) or when the
\* writes fall short (the results of fwrite and fclose are not looked at)
MainWriteAllFault ==
    /\ pc = "collect"
    /\ ~(idx < Len(futures))
    /\ \/ /\ ioFault' = ioFault \cup {"container open"}
          /\ exitCode' = 1
          /\ UNCHANGED container
       \/ /\ ioFault' = ioFault \cup {"container write"}
          /\ container' \in ShortOf(write_all(compressed_chunks, original_sizes))
          /\ exitCode' = 0
    /\ pc' = "dtor_lock"
    /\ UNCHANGED <<got, file, chunk_size, hw, fsize, num_chunks, idx, arg, futures,
                   compressed_chunks, original_sizes, codecVars, decompVars, poolVars>>

\* the header of read_and_decompress_file when fopen of the input fails,
\* a read of the tag or of the count falls short, or fopen of the output
\* fails: each throws
DecompOpenFault ==
    /\ dpc = "open"
    /\ container # Absent
    /\ \/ Throw("cannot open input file")
       \/ Throw("bad file")
       \/ TagOk(Fread(container, 0, 4)) /\ Throw("bad file header")
       \/ /\ TagOk(Fread(container, 0, 4))
          /\ Len(Fread(container, 4, 4)) = 4
          /\ Throw("cannot open output file")
    /\ ioFault' = ioFault \cup {"header"}
    /\ UNCHANGED <<got, file, chunk_size, hw, pc, fsize, num_chunks, idx, arg,
                   futures, compressed_chunks, original_sizes, container, exitCode>>
    /\ UNCHANGED <<cnt, rec, rpos, outFile, codecVars, poolVars>>

\* one turn of the record loop when a read of the record falls short (it
\* throws) or the write of the decoded bytes does (the result of fwrite is
\* not looked at)
DecompRecordFault ==
    /\ dpc = "records"
    /\ rec < cnt
    /\ LET comp == DecodeLE(Fread(container, rpos + 8, 8))
           compbuf == Fread(container, rpos + 16, comp)
           decomp == decompress(compbuf)
       IN  \/ /\ ioFault' = ioFault \cup {"record read"}
              /\ Throw("bad file")
              /\ UNCHANGED <<rec, rpos, outFile>>
           \/ /\ Len(Fread(container, rpos, 8)) = 8
              /\ Len(Fread(container, rpos + 8, 8)) = 8
              /\ comp # 0
              /\ ioFault' = ioFault \cup {"record read"}
              /\ Throw("bad file read")
              /\ UNCHANGED <<rec, rpos, outFile>>
           \/ /\ Len(Fread(container, rpos, 8)) = 8
              /\ Len(Fread(container, rpos + 8, 8)) = 8
              /\ Len(compbuf) = comp
              /\ decomp.ok
              /\ ioFault' = ioFault \cup {"output write"}
              /\ \E written \in ShortOf(decomp.out) :
                    outFile' = outFile \o written
              /\ rpos' = rpos + 16 + comp
              /\ rec' = rec + 1
              /\ UNCHANGED <<dpc, dMsg, dExit>>
    /\ UNCHANGED <<got, file, chunk_size, hw, pc, fsize, num_chunks, idx, arg,
                   futures, compressed_chunks, original_sizes, container, exitCode>>
    /\ UNCHANGED <<cnt, codecVars, poolVars>>

\* the container a successful compress run wrote is cut short (a partial
\* copy, a transfer that broke off) and the decompress run is started on
\* what is left
Truncate ==
    /\ pc = "exit"
    /\ exitCode = 0
    /\ dpc = "idle"
    /\ container' \in Prefixes(container)
    /\ dpc' = "open"
    /\ UNCHANGED <<got, ioFault, file, chunk_size, hw, pc, fsize, num_chunks, idx,
                   arg, futures, compressed_chunks, original_sizes, exitCode>>
    /\ UNCHANGED <<cnt, rec, rpos, outFile, dMsg, dExit, codecVars, poolVars>>

NextTrunc ==
    \/ Truncate
    \/ Next

SpecTrunc == Init /\ [][NextTrunc]_vars

NextIO ==
    \/ MainStartFault
    \/ MainReadChunkFault
    \/ MainWriteAllFault
    \/ DecompOpenFault
    \/ DecompRecordFault
    \/ Next

SpecIO == Init /\ [][NextIO]_vars

\* ------------------------------------------------------------------------
\* A client of the ThreadPool: it submits tasks, awaits their futures in any
\* order and destroys the pool
\* ------------------------------------------------------------------------
mainRest == <<file, chunk_size, hw, fsize, num_chunks, compressed_chunks,
              original_sizes, container, exitCode>>

\* the client calls enqueue with a task
ClientSubmit ==
    /\ pc = "client"
    /\ Len(promise) < MaxTasks
    /\ arg' = [id |-> -1, i |-> Len(promise), chunk |-> <<65 + Len(promise)>>,
               throws |-> FALSE]
    /\ pc' = "c_enq_lock"
    /\ UNCHANGED <<got, ioFault, idx, futures, mainRest, poolVars, codecVars, decompVars>>

\* the client calls enqueue with a task that raises an error when it runs
ClientSubmitThrowing ==
    /\ pc = "client"
    /\ Len(promise) < MaxTasks
    /\ arg' = [id |-> -1, i |-> Len(promise), chunk |-> <<65 + Len(promise)>>,
               throws |-> TRUE]
    /\ pc' = "c_enq_lock"
    /\ UNCHANGED <<got, ioFault, idx, futures, mainRest, poolVars, codecVars, decompVars>>

ClientEnqueueLock ==
    /\ pc = "c_enq_lock"
    /\ EnqueueLock
    /\ pc' = "c_enq_push"
    /\ UNCHANGED <<got, ioFault, idx, arg, futures, mainRest, codecVars, decompVars>>

ClientEnqueuePush ==
    /\ pc = "c_enq_push"
    /\ EnqueuePush(arg)
    /\ pc' = "c_enq_notify"
    /\ UNCHANGED <<got, ioFault, idx, arg, futures, mainRest, codecVars, decompVars>>

\* enqueue notifies and returns the future
ClientEnqueueNotify ==
    /\ pc = "c_enq_notify"
    /\ NotifyOne
    /\ futures' = Append(futures, NewTaskId)
    /\ arg' = NoTask
    /\ pc' = "client"
    /\ UNCHANGED <<got, ioFault, idx, mainRest, codecVars, decompVars>>

\* the client calls get() on one of the futures it holds
ClientAwait(k) ==
    /\ pc = "client"
    /\ k \in 1..Len(futures)
    /\ idx' = futures[k]
    /\ futures' = SubSeq(futures, 1, k - 1) \o SubSeq(futures, k + 1, Len(futures))
    /\ pc' = "c_get"
    /\ UNCHANGED <<got, ioFault, arg, mainRest, poolVars, codecVars, decompVars>>

\* get() returns once the future is ready: it gives the stored value or
\* rethrows the stored exception
ClientGet ==
    /\ pc = "c_get"
    /\ promise[idx + 1].ready
    /\ got' = [k \in DOMAIN got \cup {idx + 1} |->
                 IF k = idx + 1 THEN promise[idx + 1] ELSE got[k]]
    /\ pc' = "client"
    /\ UNCHANGED <<ioFault, idx, arg, futures, mainRest, poolVars, codecVars, decompVars>>

\* the client lets the pool go out of scope
ClientDestroy ==
    /\ pc = "client"
    /\ pc' = "dtor_lock"
    /\ UNCHANGED <<got, ioFault, idx, arg, futures, mainRest, poolVars, codecVars, decompVars>>

NextPool ==
    \/ ClientSubmit
    \/ ClientEnqueueLock
    \/ ClientEnqueuePush
    \/ ClientEnqueueNotify
    \/ \E k \in 1..MaxTasks : ClientAwait(k)
    \/ ClientGet
    \/ ClientDestroy
    \/ MainDtorLock
    \/ MainDtorStop
    \/ MainDtorNotify
    \/ MainDtorJoin
    \/ \E w \in DOMAIN wpc : WorkerLock(w)
    \/ \E w \in DOMAIN wpc : WorkerWait(w)
    \/ \E w \in DOMAIN wpc : WorkerSpuriousWake(w)
    \/ \E w \in DOMAIN wpc : WorkerExit(w)
    \/ \E w \in DOMAIN wpc : WorkerTake(w)
    \/ \E w \in DOMAIN wpc : WorkerRun(w)

SpecPool == InitPool /\ [][NextPool]_vars

\* the same client, some of whose tasks raise an error
NextPoolFail ==
    \/ ClientSubmitThrowing
    \/ NextPool

\* ------------------------------------------------------------------------
\* Tasks that call enqueue themselves: the worker running such a task is a
\* second caller of enqueue, also while the client is in the destructor
\* ------------------------------------------------------------------------
\* enqueue called by the task worker w runs, up to the lock
TaskEnqueueLock(w) ==
    /\ w \in DOMAIN wpc
    /\ wpc[w] = "run"
    /\ Len(promise) < MaxTasks
    /\ mutex = Free
    /\ mutex' = Holder(w)
    /\ promise' = Append(promise, Pending)
    /\ wpc' = [wpc EXCEPT ![w] = "t_enq_push"]
    /\ UNCHANGED <<tasks, stop, waiting, job, reordered, codecVars, mainVars, decompVars>>

\* tasks.emplace(...) and the end of the locked scope; enqueue does not
\* look at stop
TaskEnqueuePush(w) ==
    /\ w \in DOMAIN wpc
    /\ wpc[w] = "t_enq_push"
    /\ mutex = Holder(w)
    /\ tasks' = Append(tasks, [id |-> NewTaskId, i |-> NewTaskId,
                               chunk |-> <<65 + NewTaskId>>, throws |-> FALSE])
    /\ mutex' = Free
    /\ wpc' = [wpc EXCEPT ![w] = "t_enq_notify"]
    /\ UNCHANGED <<stop, waiting, job, promise, reordered, codecVars, mainVars, decompVars>>

\* cv.notify_one() and the return into the task
TaskEnqueueNotify(w) ==
    /\ w \in DOMAIN wpc
    /\ wpc[w] = "t_enq_notify"
    /\ \/ /\ waiting = {}
          /\ wpc' = [wpc EXCEPT ![w] = "run"]
          /\ UNCHANGED waiting
       \/ \E v \in waiting :
             /\ waiting' = waiting \ {v}
             /\ wpc' = [wpc EXCEPT ![v] = "lock", ![w] = "run"]
    /\ UNCHANGED <<tasks, mutex, stop, job, promise, reordered, codecVars, mainVars, decompVars>>

NextPoolLate ==
    \/ \E w \in DOMAIN wpc : TaskEnqueueLock(w)
    \/ \E w \in DOMAIN wpc : TaskEnqueuePush(w)
    \/ \E w \in DOMAIN wpc : TaskEnqueueNotify(w)
    \/ NextPool

SpecPoolLate == InitPool /\ [][NextPoolLate]_vars

\* fair scheduling: a thread that can take a step takes one, and a thread
\* that tries to lock the mutex gets it if the mutex is free again and
\* again; a spurious wake-up need never happen, and the client need not
\* submit, await or destroy
PoolFairness ==
    /\ SF_vars(ClientEnqueueLock)
    /\ WF_vars(ClientEnqueuePush)
    /\ WF_vars(ClientEnqueueNotify)
    /\ WF_vars(ClientGet)
    /\ SF_vars(MainDtorLock)
    /\ WF_vars(MainDtorStop)
    /\ WF_vars(MainDtorNotify)
    /\ WF_vars(MainDtorJoin)
    /\ \A w \in 1..MaxWorkers :
          /\ SF_vars(WorkerLock(w))
          /\ WF_vars(WorkerWait(w))
          /\ WF_vars(WorkerExit(w))
          /\ WF_vars(WorkerTake(w))
          /\ WF_vars(WorkerRun(w))

FairSpecPool == SpecPool /\ PoolFairness
FairSpecPoolFail == InitPool /\ [][NextPoolFail]_vars /\ PoolFairness

\* ------------------------------------------------------------------------
\* Properties of the codec
\* ------------------------------------------------------------------------
LastToken == tokens[Len(tokens)]
IsMatch(t) == t.kind = "match"
\* a match whose source overlaps its own destination
Overlapping(t) == IsMatch(t) /\ t.len > t.off
HasOverlap == \E k \in 1..Len(tokens) : Overlapping(tokens[k])

\* C3: decompress(compress(B)) = B for every input B, decompress never
\* throws on what compress returned, and whenever compress emitted a match
\* that overlaps its destination the encoded stream is shorter than the
\* all-literal encoding of 2 * |B| bytes ("ABABABABAB" is such an input).
C3_CodecRoundTrip ==
    /\ phase # "thrown"
    /\ phase = "returned" => dOut = cIn
    /\ (phase # "compress" /\ HasOverlap) => Len(cOut) < 2 * Len(cIn)
    /\ (phase # "compress" /\ cIn = Scenario1) => (HasOverlap /\ Len(cOut) < 20)

C3_Witness ==
    /\ phase = "returned"
    /\ cIn = Scenario1
    /\ HasOverlap
    /\ dOut = Scenario1

\* C4: every match token emitted by compress has 1 <= offset <= window_size,
\* offset <= the number of input bytes consumed when it is emitted,
\* 3 <= length <= lookahead (255), its offset and length fields hold exactly
\* that offset and length, and the encoder advances by that length.
C4_TokenValidity ==
    \A k \in 1..Len(tokens) :
        LET t == tokens[k]
        IN  IsMatch(t) =>
                /\ 1 <= t.off /\ t.off <= window_size
                /\ t.off <= t.at
                /\ 3 <= t.len /\ t.len <= lookahead /\ lookahead = 255
                /\ t.bytes[1] = 1
                /\ t.bytes[2] * 256 + t.bytes[3] = t.off
                /\ t.bytes[4] = t.len
                /\ t.pos = t.at + t.len

C4_Witness ==
    /\ tokens # <<>>
    /\ IsMatch(LastToken)
    /\ LastToken.off = window_size
    /\ LastToken.len = lookahead

\* the positions of the window of a scan position, and the longest match
\* length any of them gives
WindowOf(pos) == (IF pos > window_size THEN pos - window_size ELSE 0)..(pos - 1)
CommonPrefix(i, pos) == MatchLen(cIn, i, pos)
TiesWith(t, i) == i \in WindowOf(t.at) /\ CommonPrefix(i, t.at) = t.len

\* C5 (as amended): where compress emits a match and several window
\* positions give the same longest length, the emitted offset is the
\* LARGEST of their offsets (the farthest, earliest candidate).
C5_TieBreakFarthest ==
    (tokens # <<>> /\ IsMatch(LastToken)) =>
        LET t == LastToken
        IN  /\ TiesWith(t, t.at - t.off)
            /\ \A i \in WindowOf(t.at) : t.at - i > t.off => ~TiesWith(t, i)

\* C5 (as claimed): ... the emitted offset is the smallest of their offsets
\* (the closest, most recent candidate).
C5_TieBreakClosest ==
    (tokens # <<>> /\ IsMatch(LastToken)) =>
        LET t == LastToken
        IN  /\ TiesWith(t, t.at - t.off)
            /\ \A i \in WindowOf(t.at) : t.at - i < t.off => ~TiesWith(t, i)

\* a match emitted where a closer window position gives the same length
C5_Witness ==
    /\ tokens # <<>>
    /\ IsMatch(LastToken)
    /\ \E i \in WindowOf(LastToken.at) :
            LastToken.at - i < LastToken.off /\ TiesWith(LastToken, i)

\* the defects of a token stream at the token boundary dPos
FlagAt == ReadByte(dIn, dPos)
TruncatedToken ==
    \/ FlagAt = 0 /\ Len(dIn) - (dPos + 1) < 1
    \/ FlagAt = 1 /\ Len(dIn) - (dPos + 1) < 3
UnknownFlag == FlagAt \notin {0, 1}
OffsetAt == ReadByte(dIn, dPos + 1) * 256 + ReadByte(dIn, dPos + 2)
InvalidOffset ==
    /\ FlagAt = 1 /\ ~TruncatedToken
    /\ (OffsetAt = 0 \/ OffsetAt > Len(dOut))
Defect ==
    /\ phase = "decompress" /\ dPos < Len(dIn)
    /\ (TruncatedToken \/ UnknownFlag \/ InvalidOffset)

\* C6: decompress throws and returns no bytes as soon as the token at a
\* token boundary is truncated, has a flag other than 0x00 / 0x01, or is a
\* match whose offset is 0 or exceeds the bytes decoded so far; it returns
\* normally only when no token had such a defect, and no read ever falls
\* outside the input or the output buffer.
C6_CorruptionDetected ==
    /\ [][Defect => (phase' = "thrown" /\ dOut' = <<>> /\ dErr' # "none")]_vars
    /\ [][(phase = "decompress" /\ phase' = "returned") => dPos = Len(dIn)]_vars
    /\ [](~dOob)

C6_Witness ==
    /\ phase = "thrown"
    /\ dErr = "invalid offset"
    /\ dPos > 4


\* ------------------------------------------------------------------------
\* Properties of the compress and decompress runs
\* ------------------------------------------------------------------------
\* chunk k (0-based) of the input file, by the chunking rule
ChunkOf(k) ==
    SubSeq(file, k * chunk_size + 1, Min((k + 1) * chunk_size, Len(file)))

\* the records k.. of the container, in chunk index order
RECURSIVE RecordsFrom(_)
RecordsFrom(k) ==
    IF k >= num_chunks THEN <<>>
    ELSE EncodeLE(Len(ChunkOf(k)), 8) \o EncodeLE(Len(compress(ChunkOf(k))), 8)
         \o compress(ChunkOf(k)) \o RecordsFrom(k + 1)

Collected == IF pc = "collect" THEN idx ELSE Len(compressed_chunks)

\* C1: for every byte sequence B (the empty one included) and every chunk
\* size >= 1, compress and then decompress both succeed and the output file
\* holds exactly B.
C1_PipelineRoundTrip ==
    dpc = "exit" => (exitCode = 0 /\ dExit = 0 /\ outFile = file)

\* C2: whatever order the workers finish the tasks in, every slot
\* compressed_chunks[i] that has been collected holds the encoding of chunk
\* i, all N are collected before the container is written, and the container
\* is the header followed by the records in chunk index order: a function
\* of the file and the chunk size alone.
C2_OutputOrder ==
    /\ pc \in {"collect", "dtor_lock", "dtor_stop", "dtor_notify", "dtor_join", "exit"}
         /\ fsize # 0
       => \A k \in 0..(Collected - 1) : compressed_chunks[k + 1] = compress(ChunkOf(k))
    /\ container # Absent =>
          /\ Collected = num_chunks
          /\ container = Magic \o EncodeLE(num_chunks, 4) \o RecordsFrom(0)

\* the container has been written after a later chunk was finished before
\* an earlier one, the two encodings being different
C2_Witness ==
    /\ container # Absent
    /\ reordered
    /\ num_chunks >= 2
    /\ compressed_chunks[1] # compressed_chunks[2]

\* C7: compressing an empty input file succeeds and writes "MTC1" and a
\* chunk count of 0; decompressing that container succeeds and writes an
\* empty output file.
C7_EmptyInput ==
    /\ (file = <<>> /\ pc = "exit") =>
          (exitCode = 0 /\ container = Magic \o <<0, 0, 0, 0>>)
    /\ (file = <<>> /\ dpc = "exit") => (dExit = 0 /\ outFile = <<>>)

CeilDiv(a, b) == (a + b - 1) \div b
RECURSIVE SumSeq(_)
SumSeq(q) == IF q = <<>> THEN 0 ELSE Head(q) + SumSeq(Tail(q))
\* the length the chunking rule gives chunk k of n
RuleLength(k, n) ==
    IF k < n - 1 THEN chunk_size
    ELSE IF Len(file) % chunk_size = 0 THEN chunk_size
    ELSE Len(file) % chunk_size

\* C8: for every file size T >= 1 and chunk size S >= 1 there are
\* N = ceil(T / S) chunks, indices 0..N-1; chunk i is read at offset i * S
\* with the length of the rule (S, the last T mod S or S), the lengths sum
\* to T, and original_sizes[i] is the length requested for reading chunk i.
C8_ChunkBoundaries ==
    (Len(file) >= 1 /\ pc # "main") =>
        /\ num_chunks = CeilDiv(Len(file), chunk_size)
        /\ arg # NoTask =>
              /\ arg.i = idx /\ idx < num_chunks
              /\ arg.chunk = ChunkOf(idx)
              /\ Len(arg.chunk) = RuleLength(idx, num_chunks)
              /\ Len(arg.chunk) = ReadSize(idx, fsize, chunk_size)
        /\ \A k \in 1..Len(futures) : futures[k] = k - 1
        /\ pc \notin {"loop", "enq_lock", "enq_push", "enq_notify"} =>
              /\ Len(futures) = num_chunks
              /\ Len(original_sizes) = num_chunks
              /\ \A k \in 1..num_chunks :
                    /\ original_sizes[k] = RuleLength(k - 1, num_chunks)
                    /\ original_sizes[k] = ReadSize(k - 1, fsize, chunk_size)
              /\ SumSeq(original_sizes) = Len(file)

\* the same, for the chunk sizes at which fsize + chunk_size - 1 does not wrap
C8_NoWrap ==
    Len(file) + chunk_size - 1 < U64 => C8_ChunkBoundaries


\* the header of the file at the container path is broken: fewer than 4
\* bytes, a tag other than "MTC1", or no complete chunk count
TagBroken == container = Absent \/ SubSeq(container, 1, Min(4, Len(container))) # Magic
HeaderBroken == TagBroken \/ Len(container) < 8

\* C9: when the tag is not "MTC1" or fewer than 4 bytes are present (or the
\* chunk count is incomplete), decompress ends in an error, and the output
\* path is as it was: the header is checked before the output is opened.
C9_BadTag ==
    /\ [][(dpc = "open" /\ HeaderBroken) =>
            (dpc' = "exit" /\ dExit' = 1 /\ dMsg' # "none" /\ outFile' = outFile)]_vars
    /\ [](HeaderBroken => (dpc \in {"open", "exit"} /\ outFile \in {Absent, Prior}))

\* a container tagged "MTC2" has been refused, the output path holding what
\* it held
C9_Witness ==
    /\ dpc = "exit" /\ dExit = 1
    /\ container # Absent /\ Len(container) > 8
    /\ SubSeq(container, 1, 4) = <<77, 84, 67, 50>>
    /\ outFile = Prior

\* C10: under fair scheduling every task passed to enqueue is run to
\* completion (its future becomes ready), every get() returns, and the queue
\* is never left non-empty with every worker blocked in cv for ever,
\* whatever number of tasks is submitted and whatever order the futures are
\* awaited in.
C10_PoolLiveness ==
    /\ \A k \in 1..MaxTasks :
          (Len(promise) >= k) ~> (Len(promise) >= k /\ promise[k].ready)
    /\ (pc = "c_get") ~> (pc = "client")
    /\ (tasks # <<>> /\ \A w \in DOMAIN wpc : wpc[w] = "blocked")
          ~> (tasks = <<>>)

\* every worker was blocked in cv when a task was pushed, MaxTasks tasks
\* were submitted and finished out of order, and every get() has returned
C10_Witness ==
    /\ pc = "client"
    /\ Len(promise) = MaxTasks
    /\ \A k \in 1..MaxTasks : promise[k].ready
    /\ futures = <<>>
    /\ reordered


\* ------------------------------------------------------------------------
\* Properties of the ThreadPool
\* ------------------------------------------------------------------------
\* worker w finishes the task it was running
Finishes(w) == wpc[w] = "run" /\ wpc'[w] # "run"

\* C11: when a task run by a worker raises an error, the error is stored in
\* the shared state of that task's future and of no other, the worker is
\* back at the top of its loop and no other worker is disturbed; get() on a
\* future gives its holder what that future's own task left, an error only
\* for a task that raised one; and under fair scheduling every submitted
\* task, whatever the others did, ends up completed, the ones that raise
\* nothing with their own result.
C11_FailureIsolation ==
    /\ [][\A w \in DOMAIN wpc : Finishes(w) =>
            LET k == job[w].id + 1
            IN  /\ promise'[k].ready
                /\ (promise'[k].exc # "none") <=> job[w].throws
                /\ ~job[w].throws =>
                      /\ promise'[k].first = job[w].i
                      /\ promise'[k].second = compress(job[w].chunk)
                /\ \A j \in DOMAIN promise \ {k} : promise'[j] = promise[j]
                /\ wpc'[w] = "lock"
                /\ \A v \in DOMAIN wpc \ {w} : wpc'[v] = wpc[v]]_vars
    /\ [][(pc = "c_get" /\ pc' = "client") =>
            /\ got'[idx + 1] = promise[idx + 1]
            /\ \A k \in DOMAIN got : got'[k] = got[k]]_vars
    /\ [](\A k \in DOMAIN promise :
            (promise[k].ready /\ promise[k].exc = "none") =>
                /\ promise[k].first = k - 1
                /\ promise[k].second = compress(<<65 + k - 1>>))
    /\ <>[](\A k \in DOMAIN promise : promise[k].ready)

\* the only worker ran a task that raised an error and then another task;
\* the client got the error from the first future and the result from the
\* second
C11_Witness ==
    /\ hw = 1
    /\ DOMAIN got = {1, 2}
    /\ got[1].exc = "task error"
    /\ got[2].exc = "none"
    /\ got[2].second = compress(<<66>>)


\* ------------------------------------------------------------------------
\* Properties of the runs on files whose operations can fail
\* ------------------------------------------------------------------------
CompressFaults == {"file_size", "chunk read", "container open", "container write"}
DecompFaults == {"header", "record read", "output write"}

\* C12: a compress run in which the file size query, a chunk read, or the
\* opening or a write of the container failed or fell short returns 1, and
\* a decompress run in which a header read, a record read, the opening of
\* the output or a write to it failed or fell short returns 1: no run
\* returns 0 after such a failure.
C12_IOFatal ==
    /\ (pc = "exit" /\ ioFault \cap CompressFaults # {}) => exitCode = 1
    /\ (dpc = "exit" /\ ioFault \cap DecompFaults # {}) => dExit = 1

\* the same for the failures the code does look at: the file size query,
\* an empty chunk read, the opening of either file, and the reads of the
\* decompress run
C12_CheckedFaults ==
    /\ (pc = "exit" /\ ioFault \cap {"file_size", "container open"} # {}) => exitCode = 1
    /\ (dpc = "exit" /\ ioFault \cap {"header", "record read"} # {}) => dExit = 1


\* ------------------------------------------------------------------------
\* Properties of the decompress run
\* ------------------------------------------------------------------------
\* the record at read position pos of the container
RecordOrig(pos) == DecodeLE(Fread(container, pos, 8))
RecordComp(pos) == DecodeLE(Fread(container, pos + 8, 8))
RecordDecoded(pos) == DecompressFrom(Fread(container, pos + 16, RecordComp(pos)), 0, <<>>)

\* some of the n records from read position pos on declares an original
\* size other than the number of bytes it decodes to
RECURSIVE MismatchIn(_, _)
MismatchIn(pos, n) ==
    IF n = 0 THEN FALSE
    ELSE \/ Len(RecordDecoded(pos).out) # RecordOrig(pos)
         \/ MismatchIn(pos + 16 + RecordComp(pos), n - 1)

\* C13: once the decompress run has decoded a record whose decoded length
\* differs from its declared original_size, the run has reported something
\* (cerr is not empty).
C13_MismatchSurfaced ==
    (dpc \in {"records", "exit"} /\ rec > 0 /\ MismatchIn(8, rec)) => dMsg # "none"


\* what the compress run wrote, and the container path holding a proper
\* prefix of it
Written == write_all(compressed_chunks, original_sizes)
Truncated == exitCode = 0 /\ container \in Prefixes(Written)

\* C14: the decompress run on any proper prefix of a container written by a
\* successful compress run ends in an error, exit code 1, never in success,
\* wherever the cut falls: in the header, inside a record or between two
\* records.
C14_TruncatedRejected ==
    (Truncated /\ dpc = "exit") => (dExit = 1 /\ dMsg # "none")

\* a container cut exactly after its first complete record has been refused
C14_Witness ==
    /\ Truncated
    /\ dpc = "exit" /\ dExit = 1
    /\ rec >= 1
    /\ rpos = Len(container)


\* ------------------------------------------------------------------------
\* Properties of the pool's shutdown
\* ------------------------------------------------------------------------
\* the destructor of the pool has been entered
ShutdownBegun == stop \/ pc \in {"dtor_lock", "dtor_stop", "dtor_notify", "dtor_join"}

\* C15: in every compress run, when the destructor of the pool is entered
\* (and so whenever stop is set) the coordinator has awaited the future of
\* every task it submitted.
C15_CollectBeforeShutdown ==
    ShutdownBegun => Collected = Len(futures)


\* C16: once stop is true no call of enqueue adds a task to the queue (the
\* queue only shrinks), so that no task submitted after that point can be
\* started by a worker.
C16_ShutdownRefuses ==
    [][stop => Len(tasks') <= Len(tasks)]_vars


\* ------------------------------------------------------------------------
\* The greedy parse of LZ77::compress
\* ------------------------------------------------------------------------
\* the common prefix of cIn[i..] and cIn[pos..], capped at 255 and at the
\* bytes remaining at pos, is at least k bytes long
PrefixAtLeast(i, pos, k) ==
    /\ k <= 255
    /\ k <= Len(cIn) - pos
    /\ \A j \in 0..(k - 1) : cIn[i + j + 1] = cIn[pos + j + 1]

\* L, the maximum of that length over the window of pos, is exactly k
LongestIs(pos, k) ==
    /\ k = 0 \/ \E i \in WindowOf(pos) : PrefixAtLeast(i, pos, k)
    /\ \A i \in WindowOf(pos) : ~PrefixAtLeast(i, pos, k + 1)
LongestBelow(pos, k) == \A i \in WindowOf(pos) : ~PrefixAtLeast(i, pos, k)

RECURSIVE SumLen(_)
SumLen(ts) == IF ts = <<>> THEN 0 ELSE Head(ts).len + SumLen(Tail(ts))

\* C17: the tokens follow each other from position 0 without gap; the
\* token emitted at pos is a Match of length exactly L, advancing by L,
\* when the longest capped common prefix L over the window is >= 3, and
\* otherwise one Literal carrying input[pos], advancing by 1; when compress
\* returns the token lengths sum to the input length.
C17_GreedyLongest ==
    /\ tokens # <<>> =>
          LET t == LastToken
              prev == IF Len(tokens) = 1 THEN 0 ELSE tokens[Len(tokens) - 1].pos
          IN  /\ t.at = prev
              /\ cPos = t.pos
              /\ IsMatch(t) =>
                    /\ t.len >= 3
                    /\ LongestIs(t.at, t.len)
                    /\ PrefixAtLeast(t.at - t.off, t.at, t.len)
                    /\ t.pos = t.at + t.len
              /\ ~IsMatch(t) =>
                    /\ LongestBelow(t.at, 3)
                    /\ t.len = 1
                    /\ t.bytes = <<0, cIn[t.at + 1]>>
                    /\ t.pos = t.at + 1
    /\ SumLen(tokens) = cPos
    /\ phase # "compress" => SumLen(tokens) = Len(cIn)

\* a match has been emitted where the window holds candidates of different
\* lengths >= 3, the emitted one being the longest and not the first tried
C17_Witness ==
    /\ tokens # <<>>
    /\ IsMatch(LastToken)
    /\ LastToken.len < Len(cIn) - LastToken.at
    /\ \E i \in WindowOf(LastToken.at) :
          /\ i < LastToken.at - LastToken.off
          /\ PrefixAtLeast(i, LastToken.at, 3)
          /\ ~PrefixAtLeast(i, LastToken.at, LastToken.len)


\* the record at read position pos is all there
RecordComplete(pos) ==
    /\ Len(Fread(container, pos, 8)) = 8
    /\ Len(Fread(container, pos + 8, 8)) = 8
    /\ Len(Fread(container, pos + 16, RecordComp(pos))) = RecordComp(pos)

\* the decoded bytes of the n records from read position pos on, in order
RECURSIVE DecodedRecords(_, _)
DecodedRecords(pos, n) ==
    IF n = 0 THEN <<>>
    ELSE RecordDecoded(pos).out \o DecodedRecords(pos + 16 + RecordComp(pos), n - 1)

CorruptionErrors ==
    {"corrupt literal", "corrupt match", "invalid offset", "unknown token flag"}

\* C18: when the token stream of record k does not decode, the turn of the
\* record loop that reaches it ends the run in error (exit code 1, the
\* codec's message) without writing anything; and while the records are
\* processed and after a corruption error the output holds exactly the
\* decoded records 0..k-1 in order, k being the record reached.
C18_CorruptionStopsOutput ==
    /\ [][(dpc = "records" /\ rec < cnt /\ RecordComplete(rpos)
             /\ ~RecordDecoded(rpos).ok) =>
            /\ dpc' = "exit" /\ dExit' = 1
            /\ dMsg' = RecordDecoded(rpos).err
            /\ outFile' = outFile
            /\ rec' = rec]_vars
    /\ []((dpc = "records" \/ (dpc = "exit" /\ dMsg \in CorruptionErrors)) =>
            outFile = DecodedRecords(8, rec))
    /\ []((dpc = "exit" /\ dMsg \in CorruptionErrors) => dExit = 1)

\* the second record of three failed after one of its bytes had been
\* decoded: the output holds the first record and nothing else
C18_Witness ==
    /\ dpc = "exit" /\ dExit = 1
    /\ dMsg = "invalid offset"
    /\ rec = 1 /\ cnt = 3
    /\ RecordComp(rpos) = 6
    /\ outFile # <<>>
    /\ outFile = RecordDecoded(8).out


\* ------------------------------------------------------------------------
\* Mutual exclusion and exactly-once execution
\* ------------------------------------------------------------------------
\* how often the task with this id stands in the queue or in a worker's job
Occurrences(id) ==
    Cardinality({k \in DOMAIN tasks : tasks[k].id = id})
    + Cardinality({w \in DOMAIN job : job[w].id = id})

\* the task with this id has been given its future but is not pushed yet
BeingPushed(id) == pc = "c_enq_push" /\ id = Len(promise) - 1

Running == {w \in DOMAIN wpc : wpc[w] = "run"}

\* C19: the queue changes only by a push made by the caller of enqueue
\* while it holds the mutex, or by a worker that holds the mutex moving the
\* front task into its job; a worker that runs a task does not hold the
\* mutex; every enqueued task stands exactly once in the queue or in one
\* worker's job until it has been run and nowhere afterwards; a future is
\* made ready once, by the worker whose job the task is; and at most n
\* tasks are running at any time.
C19_ExactlyOnce ==
    /\ [][tasks' # tasks =>
            \/ /\ mutex = <<"main">>
               /\ Len(tasks') = Len(tasks) + 1
               /\ SubSeq(tasks', 1, Len(tasks)) = tasks
            \/ \E w \in DOMAIN wpc :
               /\ mutex = <<"worker", w>>
               /\ tasks # <<>>
               /\ tasks' = Tail(tasks)
               /\ job'[w] = Head(tasks)
               /\ \A v \in DOMAIN wpc \ {w} : job'[v] = job[v]]_vars
    /\ [](\A w \in DOMAIN wpc :
            wpc[w] = "run" => (mutex # <<"worker", w>> /\ job[w] # NoTask))
    /\ [](\A k \in DOMAIN promise :
            Occurrences(k - 1) =
                IF promise[k].ready \/ BeingPushed(k - 1) THEN 0 ELSE 1)
    /\ [][\A k \in DOMAIN promise :
            /\ promise[k].ready => promise'[k] = promise[k]
            /\ (~promise[k].ready /\ promise'[k].ready) =>
                  \E w \in Running : job[w].id = k - 1 /\ wpc'[w] # "run"]_vars
    /\ [](Cardinality(Running) <= hw)

\* as many tasks as there are workers are running at the same time, each
\* on a worker of its own, the mutex free
C19_Witness ==
    /\ hw = MaxWorkers
    /\ Cardinality(Running) = hw
    /\ \A w \in Running : \A v \in Running \ {w} : job[w].id # job[v].id
    /\ mutex = Free


\* ------------------------------------------------------------------------
\* Shutdown
\* ------------------------------------------------------------------------
Exited == {w \in DOMAIN wpc : wpc[w] = "exited"}
AllExecuted == \A k \in DOMAIN promise : promise[k].ready

\* C20 (as amended): a worker exits only when stop is true and the queue is
\* empty, so when any worker has exited every enqueued task has been taken
\* off the queue (it may still be running on another worker); when the
\* joins of the destructor have returned every enqueued task has been
\* executed; and under fair scheduling a destructor that has begun ends
\* with every worker exited and its joins returned, wherever the workers
\* stood when stop was set.
C20_DrainAndTerminate ==
    /\ [][\A w \in DOMAIN wpc :
            (wpc[w] # "exited" /\ wpc'[w] = "exited") => (stop /\ tasks = <<>>)]_vars
    /\ [](Exited # {} => (stop /\ tasks = <<>>))
    /\ [](pc = "exit" => (AllJoined /\ AllExecuted /\ tasks = <<>>))
    /\ (pc = "dtor_lock") ~> (pc = "exit")

\* C20 (as claimed): when any worker has exited (on an empty queue), every
\* task enqueued before stop was set has been executed.
C20_ExecutedBeforeAnyExit ==
    Exited # {} => AllExecuted

\* stop is set and the workers have been notified while one task is still
\* queued and another is running
C20_Witness ==
    /\ stop
    /\ pc = "dtor_join"
    /\ tasks # <<>>
    /\ Running # {}

=============================================================================
